---- MODULE Spec2Model ----
(***************************************************************************)
(* A model of DataBuffer (src/src/lib.rs): a growable buffer of bytes that *)
(* records the size and the TypeId of the element type it stores.          *)
(*                                                                         *)
(* Two buffers are modelled: `self`, the receiver of every method, and     *)
(* `other`, the buffer the caller passes to append or with_buffer_type.    *)
(* A call is one action: it records the buffers before the call in `pre`,  *)
(* the call and its result in `last`, and moves `pc` to "returned"; Return *)
(* hands control back to the caller, who drops `other` and may then make   *)
(* the next call.                                                          *)
(*                                                                         *)
(* Bytes are stored in native order; the model fixes little endian.        *)
(***************************************************************************)
EXTENDS Integers, Sequences, FiniteSets

VARIABLES self, other, pc, last, pre, heap, blocks, dlast, dpre

\* The variables of the buffer and those of the byte dispatch.
bvars == <<self, other, pc, last, pre>>

dvars == <<heap, blocks, dlast, dpre>>

vars == <<self, other, pc, last, pre, heap, blocks, dlast, dpre>>

(***************************************************************************)
(* Bounds of the model.                                                    *)
(***************************************************************************)
\* Largest number of bytes the model lets `self` grow to.
MaxBytes == 6
\* Largest number of elements of a Vec or slice passed to a call.
MaxVec == 3
\* Largest number of bytes of a raw payload passed to a call.
MaxPayload == 4
\* The most bytes one reserve_bytes call asks for.
MaxReserve == 2
\* The width of usize in the model, in bits; rotate_left and rotate_right
\* are called with arguments up to the largest usize.
UsizeBits == 4
\* The number of allocations the heap of the byte dispatch has room for.
MaxAddr == 2
\* The number of byte blocks a caller of the byte dispatch keeps.
MaxBlocks == 2

(***************************************************************************)
(* Element types: T ranges over a few Rust types, one of them zero sized.  *)
(***************************************************************************)
Types == {"u8", "i8", "u16", "unit"}

\* std::mem::size_of::<T>()
size_of(T) ==
    CASE T = "u8" -> 1
      [] T = "i8" -> 1
      [] T = "u16" -> 2
      [] T = "unit" -> 0

\* std::any::TypeId::of::<T>(): an opaque token, distinct for distinct types.
TypeId_of(T) ==
    CASE T = "u8" -> 11
      [] T = "i8" -> 12
      [] T = "u16" -> 13
      [] T = "unit" -> 14

Signed(T) == T = "i8"

\* The values of type T the model passes to calls.
Values(T) ==
    CASE T = "u8" -> {0, 255}
      [] T = "i8" -> {-1, 0}
      [] T = "u16" -> {255, 65280}
      [] T = "unit" -> {0}

\* The byte values a raw payload is made of.
RawBytes == {0, 255}

RECURSIVE Pow(_, _)
Pow(b, e) == IF e = 0 THEN 1 ELSE b * Pow(b, e - 1)

\* usize::MAX.
UsizeMax == Pow(2, UsizeBits) - 1

\* The bytes of a value of type T as slice::from_raw_parts(ptr as *const u8,
\* size_of::<T>()) sees them: two's complement, least significant byte first.
ToBytes(T, v) ==
    [j \in 1..size_of(T) |-> ((v % Pow(256, size_of(T))) \div Pow(256, j - 1)) % 256]

RECURSIVE Unsigned(_)
Unsigned(bs) ==
    IF bs = <<>> THEN 0 ELSE bs[1] + 256 * Unsigned(Tail(bs))

\* The value of type T read through a *const T pointing at the bytes bs.
FromBytes(T, bs) ==
    LET u == Unsigned(bs)
    IN  IF Signed(T) /\ u >= Pow(256, size_of(T)) \div 2
        THEN u - Pow(256, size_of(T))
        ELSE u

RECURSIVE Flatten(_)
Flatten(ss) == IF ss = <<>> THEN <<>> ELSE ss[1] \o Flatten(Tail(ss))

\* The bytes of a Vec<T> or &[T], element after element.
VecBytes(T, v) == Flatten([i \in 1..Len(v) |-> ToBytes(T, v[i])])

\* All sequences over S of length at most n.
SeqsUpTo(S, n) == UNION {[1..k -> S] : k \in 0..n}

(***************************************************************************)
(* Vec<u8> and slice operations of the standard library that the buffer's  *)
(* methods call.                                                           *)
(***************************************************************************)
\* Vec::resize(new_len, value): extends with copies of value, or truncates.
VecResize(d, new_len, value) ==
    IF new_len > Len(d)
    THEN d \o [i \in 1..(new_len - Len(d)) |-> value]
    ELSE SubSeq(d, 1, new_len)

\* Vec::reserve(additional) on a vector of the given capacity and length:
\* nothing when the spare capacity suffices, else the amortized growth of the
\* standard library, to max(2 * cap, len + additional, 8) for byte vectors.
VecReserve(cap, length, additional) ==
    IF cap - length >= additional THEN cap
    ELSE LET required == length + additional
             doubled == IF 2 * cap > required THEN 2 * cap ELSE required
         IN  IF doubled > 8 THEN doubled ELSE 8

\* slice::rotate_left(mid), for mid <= len: the first mid items move to the end.
SliceRotateLeft(d, mid) == SubSeq(d, mid + 1, Len(d)) \o SubSeq(d, 1, mid)

\* Mutant of SliceRotateRight: the first k items move to the end.
SliceRotateRight_FirstK(d, k) == SubSeq(d, k + 1, Len(d)) \o SubSeq(d, 1, k)

\* slice::rotate_right(k), for k <= len: the last k items move to the front.
SliceRotateRight(d, k) ==
    SubSeq(d, Len(d) - k + 1, Len(d)) \o SubSeq(d, 1, Len(d) - k)

\* slice::chunks(n): consecutive pieces of n items, the last one maybe shorter.
RECURSIVE Chunks(_, _)
Chunks(d, n) ==
    IF d = <<>> THEN <<>>
    ELSE IF Len(d) <= n THEN <<d>>
    ELSE <<SubSeq(d, 1, n)>> \o Chunks(SubSeq(d, n + 1, Len(d)), n)

\* Mutant of ReadAt: the index counts bytes, not values of type T.
ReadAt_ByteOffset(d, T, i) == FromBytes(T, SubSeq(d, i + 1, i + size_of(T)))

\* The i-th T (from 0) behind a *const T that points at the bytes d: ptr.add(i).
ReadAt(d, T, i) == FromBytes(T, SubSeq(d, i * size_of(T) + 1, (i + 1) * size_of(T)))

\* slice::from_raw_parts(ptr as *const T, n): n values of type T read from d.
RawParts(d, T, n) == [i \in 1..n |-> ReadAt(d, T, i - 1)]

\* reinterpret::reinterpret_vec: the Vec<u8> d taken over as a Vec<T>.
reinterpret_vec(d, T) == RawParts(d, T, Len(d) \div size_of(T))

(***************************************************************************)
(* DataBuffer.  A buffer is a record of the struct's three fields, the    *)
(* Vec<u8> being its bytes and its capacity; a call                        *)
(* yields the value returned (ret is "Some", "None", "ok" for a call that  *)
(* returns no Option, or "panic"), the buffer after the call and what the  *)
(* call hands out.                                                         *)
(*                                                                         *)
(* The field `data` is declared Vec<usize> (line 56), but its comment and  *)
(* every use of it (extend_from_slice(&[u8]), Vec::from_raw_parts on a     *)
(* *mut u8, as_bytes() -> &[u8]) take it as a Vec<u8>: the model holds a   *)
(* sequence of bytes.                                                      *)
(***************************************************************************)
Buffer(data, capacity, element_size, element_type_id) ==
    [data |-> data, capacity |-> capacity, element_size |-> element_size, element_type_id |-> element_type_id]

\* No buffer: what a constructor that panicked leaves behind.
NoBuffer == Buffer(<<>>, 0, 0, 0)

Res(ret, b, out) == [ret |-> ret, self |-> b, out |-> out]

with_type(T) ==
    IF size_of(T) = 0 THEN Res("panic", NoBuffer, <<>>)
    ELSE Res("ok", Buffer(<<>>, 0, size_of(T), TypeId_of(T)), <<>>)

with_buffer_type(o) ==
    Res("ok", Buffer(<<>>, 0, o.element_size, o.element_type_id), <<>>)

with_capacity(T, n) ==
    IF size_of(T) = 0 THEN Res("panic", NoBuffer, <<>>)
    ELSE Res("ok", Buffer(<<>>, n * size_of(T), size_of(T), TypeId_of(T)), <<>>)

\* Mutant of from_vec: the length is not multiplied by the element size.
from_vec_LenNotScaled(T, vec) ==
    IF size_of(T) = 0 THEN Res("panic", NoBuffer, <<>>)
    ELSE Res("ok", Buffer(SubSeq(VecBytes(T, vec), 1, Len(vec)),
                          Len(vec) * size_of(T), size_of(T), TypeId_of(T)), <<>>)

\* The Vec<T> a caller passes holds exactly its items: vec.capacity() is
\* vec.len().
from_vec(T, vec) ==
    IF size_of(T) = 0 THEN Res("panic", NoBuffer, <<>>)
    ELSE LET len_in_bytes == Len(vec) * size_of(T)
             capacity_in_bytes == Len(vec) * size_of(T)
         IN  Res("ok", Buffer(SubSeq(VecBytes(T, vec), 1, len_in_bytes),
                              capacity_in_bytes, size_of(T), TypeId_of(T)), <<>>)

with_size(T, n, def) == from_vec(T, [i \in 1..n |-> def])

from_slice(T, slice) == from_vec(T, slice)

element_type_id(b) == b.element_type_id

element_size(b) == b.element_size

\* Mutant of check_ref: the sizes are compared, not the tokens.
check_ref_BySize(b, T) == size_of(T) = b.element_size

\* check, check_ref and check_mut: TRUE for Some(self), FALSE for None.
check_ref(b, T) == TypeId_of(T) = element_type_id(b)

len(b) == Len(b.data) \div b.element_size

byte_capacity(b) == b.capacity

as_bytes(b) == b.data

\* Vec::extend_from_slice and Vec::append on b.data: room is reserved, then
\* the bytes are put at the end.
extend_from_slice(b, bytes) ==
    [b EXCEPT !.data = @ \o bytes,
              !.capacity = VecReserve(@, Len(b.data), Len(bytes))]

reserve_bytes(b, additional) ==
    Res("ok", [b EXCEPT !.capacity = VecReserve(@, Len(b.data), additional)], <<>>)

get_bytes(b, i) == SubSeq(b.data, i * element_size(b) + 1, (i + 1) * element_size(b))

\* Mutant of push_bytes: any whole number of elements is taken.
push_bytes_Multiple(b, bytes) ==
    IF Len(bytes) % element_size(b) = 0
    THEN Res("Some", extend_from_slice(b, bytes), <<>>)
    ELSE Res("None", b, <<>>)

push_bytes(b, bytes) ==
    IF Len(bytes) = element_size(b)
    THEN Res("Some", extend_from_slice(b, bytes), <<>>)
    ELSE Res("None", b, <<>>)

\* Mutant of extend_bytes: the length of the payload is not looked at.
extend_bytes_Always(b, bytes) == Res("Some", [b EXCEPT !.data = @ \o bytes], <<>>)

\* Mutant of extend_bytes: only the bytes of exactly one element are taken.
extend_bytes_OneElement(b, bytes) ==
    IF Len(bytes) = element_size(b)
    THEN Res("Some", extend_from_slice(b, bytes), <<>>)
    ELSE Res("None", b, <<>>)

extend_bytes(b, bytes) ==
    IF Len(bytes) % element_size(b) = 0
    THEN Res("Some", extend_from_slice(b, bytes), <<>>)
    ELSE Res("None", b, <<>>)

\* Mutant of append_bytes: the bytes are copied and stay in the caller's Vec.
append_bytes_KeepVec(b, bytes) ==
    IF Len(bytes) % element_size(b) = 0
    THEN Res("Some", extend_from_slice(b, bytes), bytes)
    ELSE Res("None", b, bytes)

\* out is what is left in the caller's Vec<u8>.
append_bytes(b, bytes) ==
    IF Len(bytes) % element_size(b) = 0
    THEN Res("Some", extend_from_slice(b, bytes), <<>>)
    ELSE Res("None", b, bytes)

\* Mutant of push: the bytes of the element are put in front.
push_Front(b, T, element) ==
    IF ~check_ref(b, T) THEN Res("None", b, <<>>)
    ELSE Res("Some", [b EXCEPT !.data = ToBytes(T, element) \o @], <<>>)

push(b, T, element) ==
    IF ~check_ref(b, T) THEN Res("None", b, <<>>)
    ELSE push_bytes(b, ToBytes(T, element))

RECURSIVE PushTimes(_, _, _, _)
\* for _ in 0..diff { self.push(value.clone()); }
PushTimes(b, T, value, diff) ==
    IF diff = 0 THEN b ELSE PushTimes(push(b, T, value).self, T, value, diff - 1)

\* Mutant of resize: truncates to new_len bytes, not new_len elements.
resize_TruncateUnscaled(b, T, new_len, value) ==
    IF ~check_ref(b, T) THEN Res("None", b, <<>>)
    ELSE IF new_len >= len(b)
         THEN Res("Some", PushTimes(b, T, value, new_len - len(b)), <<>>)
         ELSE Res("Some", [b EXCEPT !.data = VecResize(@, new_len, 0)], <<>>)

resize(b, T, new_len, value) ==
    IF ~check_ref(b, T) THEN Res("None", b, <<>>)
    ELSE LET size_t == size_of(T)
             diff == new_len - len(b)
         IN  IF new_len >= len(b)
             THEN Res("Some", PushTimes(reserve_bytes(b, diff * size_t).self,
                                        T, value, diff), <<>>)
             ELSE Res("Some", [b EXCEPT !.data = VecResize(@, new_len * size_t, 0)], <<>>)

\* Mutant of copy_from_slice: the type token is left as it was.
copy_from_slice_KeepToken(b, T, slice) ==
    IF size_of(T) = 0 THEN Res("panic", b, <<>>)
    ELSE LET bins == Len(slice) * size_of(T)
         IN  Res("ok", Buffer(SubSeq(VecBytes(T, slice), 1, bins),
                              b.capacity, size_of(T), b.element_type_id), <<>>)

\* Mutant of copy_from_slice: the element size is not asserted to be non-zero.
copy_from_slice_NoAssert(b, T, slice) ==
    LET bins == Len(slice) * size_of(T)
    IN  Res("ok", Buffer(SubSeq(VecBytes(T, slice), 1, bins),
                         b.capacity, size_of(T), TypeId_of(T)), <<>>)

\* Mutant of copy_from_slice: the element size is left as it was.
copy_from_slice_KeepSize(b, T, slice) ==
    IF size_of(T) = 0 THEN Res("panic", b, <<>>)
    ELSE LET bins == Len(slice) * size_of(T)
         IN  Res("ok", Buffer(SubSeq(VecBytes(T, slice), 1, bins),
                              b.capacity, b.element_size, TypeId_of(T)), <<>>)

copy_from_slice(b, T, slice) ==
    IF size_of(T) = 0 THEN Res("panic", b, <<>>)
    ELSE LET bins == Len(slice) * size_of(T)
             byte_slice == SubSeq(VecBytes(T, slice), 1, bins)
             resized == VecResize(b.data, bins, 0)
             capacity == IF bins > Len(b.data)
                         THEN VecReserve(b.capacity, Len(b.data), bins - Len(b.data))
                         ELSE b.capacity
         IN  Res("ok", Buffer([i \in 1..Len(resized) |-> byte_slice[i]],
                              capacity, size_of(T), TypeId_of(T)), <<>>)

\* Mutant of clear: the bytes are replaced by a new, unallocated Vec.
clear_NewVec(b) == Res("ok", Buffer(<<>>, 0, b.element_size, b.element_type_id), <<>>)

clear(b) == Res("ok", [b EXCEPT !.data = <<>>], <<>>)

as_slice(b, T) ==
    IF ~check_ref(b, T) THEN Res("None", b, <<>>)
    ELSE Res("Some", b, RawParts(b.data, T, len(b)))

as_mut_slice(b, T) ==
    IF ~check_ref(b, T) THEN Res("None", b, <<>>)
    ELSE Res("Some", b, RawParts(b.data, T, len(b)))

iter(b, T) == as_slice(b, T)

iter_mut(b, T) == as_mut_slice(b, T)

\* Mutant of fill: the last element is not written.
fill_SkipLast(b, T, def) ==
    IF iter_mut(b, T).ret = "None" THEN Res("None", b, <<>>)
    ELSE Res("Some", [b EXCEPT !.data =
                 Flatten([i \in 1..len(b) |->
                     IF i < len(b) THEN ToBytes(T, def) ELSE get_bytes(b, i - 1)])], <<>>)

fill(b, T, def) ==
    IF iter_mut(b, T).ret = "None" THEN Res("None", b, <<>>)
    ELSE Res("Some", [b EXCEPT !.data = Flatten([i \in 1..len(b) |-> ToBytes(T, def)])], <<>>)

\* out is the caller's Vec<T> after the call.
append_clone_to_vec(b, T, vec) ==
    IF as_slice(b, T).ret = "None" THEN Res("None", b, vec)
    ELSE Res("Some", b, vec \o as_slice(b, T).out)

append_copy_to_vec(b, T, vec) ==
    IF iter(b, T).ret = "None" THEN Res("None", b, vec)
    ELSE Res("Some", b, vec \o iter(b, T).out)

clone_into_vec(b, T) ==
    IF append_clone_to_vec(b, T, <<>>).ret = "Some"
    THEN Res("Some", b, append_clone_to_vec(b, T, <<>>).out)
    ELSE Res("None", b, <<>>)

copy_into_vec(b, T) ==
    IF append_copy_to_vec(b, T, <<>>).ret = "Some"
    THEN Res("Some", b, append_copy_to_vec(b, T, <<>>).out)
    ELSE Res("None", b, <<>>)

\* Consumes the buffer.
into_vec(b, T) ==
    IF ~check_ref(b, T) THEN Res("None", b, <<>>)
    ELSE Res("Some", b, reinterpret_vec(b.data, T))

\* Mutant of get: the type is checked before the index.
get_TypeFirst(b, T, i) ==
    IF ~check_ref(b, T) THEN Res("None", b, <<>>)
    ELSE IF ~(i < len(b)) THEN Res("panic", b, <<>>)
    ELSE Res("Some", b, <<ReadAt(b.data, T, i)>>)

\* get, get_ref and get_mut have the same body.
get(b, T, i) ==
    IF ~(i < len(b)) THEN Res("panic", b, <<>>)
    ELSE IF ~check_ref(b, T) THEN Res("None", b, <<>>)
    ELSE Res("Some", b, <<ReadAt(b.data, T, i)>>)

get_ref(b, T, i) == get(b, T, i)

get_mut(b, T, i) == get(b, T, i)

\* Mutant of append: the bytes are copied and stay in buf.
append_CopyOnly(b, buf) ==
    IF element_type_id(buf) = element_type_id(b)
    THEN [ret |-> "Some", self |-> [b EXCEPT !.data = @ \o buf.data], buf |-> buf]
    ELSE [ret |-> "None", self |-> b, buf |-> buf]

\* Mutant of append: buf's bytes take the place of the destination's.
append_Replace(b, buf) ==
    IF element_type_id(buf) = element_type_id(b)
    THEN [ret |-> "Some", self |-> [b EXCEPT !.data = buf.data],
          buf |-> [buf EXCEPT !.data = <<>>]]
    ELSE [ret |-> "None", self |-> b, buf |-> buf]

\* Vec::append moves every byte of buf.data and leaves it empty.
append(b, buf) ==
    IF element_type_id(buf) = element_type_id(b)
    THEN [ret |-> "Some", self |-> extend_from_slice(b, buf.data),
          buf |-> [buf EXCEPT !.data = <<>>]]
    ELSE [ret |-> "None", self |-> b, buf |-> buf]

\* Mutant of rotate_left: rotates by mid bytes, not mid elements.
rotate_left_ByBytes(b, mid, overflow_checks) ==
    IF mid > Len(b.data) THEN Res("panic", b, <<>>)
    ELSE Res("ok", [b EXCEPT !.data = SliceRotateLeft(@, mid)], <<>>)

\* mid * self.element_size is a product of two usize: where it does not fit,
\* a build with overflow checks (debug) panics and a build without (release)
\* goes on with the product modulo 2^UsizeBits.  slice::rotate_left panics
\* when its argument is greater than the length of the slice.
rotate_left(b, mid, overflow_checks) ==
    LET product == mid * b.element_size
        wrapped == product % (UsizeMax + 1)
    IN  IF product > UsizeMax /\ overflow_checks THEN Res("panic", b, <<>>)
        ELSE IF wrapped > Len(b.data) THEN Res("panic", b, <<>>)
        ELSE Res("ok", [b EXCEPT !.data = SliceRotateLeft(@, wrapped)], <<>>)

\* Mutant of rotate_right: rotates to the left.
rotate_right_AsLeft(b, k, overflow_checks) == rotate_left(b, k, overflow_checks)

\* As rotate_left; slice::rotate_right panics when its argument is greater
\* than the length of the slice.
rotate_right(b, k, overflow_checks) ==
    LET product == k * b.element_size
        wrapped == product % (UsizeMax + 1)
    IN  IF product > UsizeMax /\ overflow_checks THEN Res("panic", b, <<>>)
        ELSE IF wrapped > Len(b.data) THEN Res("panic", b, <<>>)
        ELSE Res("ok", [b EXCEPT !.data = SliceRotateRight(@, wrapped)], <<>>)

\* Mutant of byte_chunks: the chunks are single bytes.
byte_chunks_PerByte(b) == Chunks(b.data, 1)

byte_chunks(b) == Chunks(b.data, element_size(b))

(***************************************************************************)
(* Byte dispatch (traits.rs).  The dispatch functions are generated for a  *)
(* type T and work on byte blocks that hold one T.  The types of the model *)
(* are u8, which is Copy and has no destructor, and Box<u8>, whose Clone   *)
(* allocates and whose destructor frees: the bytes of a Box<u8> are the    *)
(* address of its allocation, two bytes wide in the model.  `heap` holds   *)
(* the allocations, `blocks` the byte blocks the caller keeps, `dlast` the *)
(* dispatch call that has just returned and `dpre` the heap and blocks it  *)
(* started from.                                                           *)
(***************************************************************************)
DTypes == {"u8", "Box<u8>"}

Addrs == 1..MaxAddr

Slots == 1..MaxBlocks

\* The integer type with the layout of T: a Box<u8> is a thin pointer.
Repr(T) == IF T = "u8" THEN "u8" ELSE "u16"

\* crate::bytes, Bytes::from_bytes: the bytes viewed as a &T; for a Box<u8>
\* the reference gives the address the bytes hold.
from_bytes(T, bytes) == FromBytes(Repr(T), bytes)

\* Bytes::from_bytes_mut: the bytes viewed as a &mut T.
from_bytes_mut(T, bytes) == FromBytes(Repr(T), bytes)

\* Bytes::box_into_box_bytes: the Box<T> handed on as the Box<[u8]> of its bytes.
box_into_box_bytes(T, v) == ToBytes(Repr(T), v)

\* The bytes behind a &mut T after a write of v through it.
write_through(T, v) == ToBytes(Repr(T), v)

\* <T as Clone>::clone: u8 is copied; Box<u8> allocates at the free address
\* `a` of the allocator's choice and copies the pointee there.
T_clone(h, T, v, a) ==
    IF T = "u8" THEN [heap |-> h, val |-> v]
    ELSE [heap |-> [h EXCEPT ![a] = [live |-> TRUE, val |-> h[v].val]], val |-> a]

\* <T as Clone>::clone_from: Box<u8> clones the pointee into the allocation
\* of the destination.
T_clone_from(h, T, dst, src) ==
    IF T = "u8" THEN [heap |-> h, val |-> src]
    ELSE [heap |-> [h EXCEPT ![dst].val = h[src].val], val |-> dst]

\* <T as PartialEq>::eq: Box<u8> compares the pointees.
T_eq(h, T, a, b) == IF T = "u8" THEN a = b ELSE h[a].val = h[b].val

\* The destructor of T: Box<u8> frees its allocation.
T_drop(h, T, v) == IF T = "u8" THEN h ELSE [h EXCEPT ![v].live = FALSE]

\* <T as Hash>::hash and <T as Debug>::fmt: what is written to the hasher or
\* the formatter; Box<u8> passes its pointee on.
T_hash(h, T, v, state) == Append(state, IF T = "u8" THEN v ELSE h[v].val)

T_fmt(h, T, v, f) == Append(f, IF T = "u8" THEN v ELSE h[v].val)

drop_bytes(h, T, bytes) ==
    LET md == from_bytes_mut(T, bytes)
    IN  T_drop(h, T, md)

\* Mutant of clone_bytes: the bytes are copied, T's clone is not called.
clone_bytes_Shallow(h, T, src, a) == [heap |-> h, out |-> src]

clone_bytes(h, T, src, a) ==
    LET typed_src == from_bytes(T, src)
        c == T_clone(h, T, typed_src, a)
    IN  [heap |-> c.heap, out |-> box_into_box_bytes(T, c.val)]

\* out is the destination block after the call.
clone_from_bytes(h, T, dst, src) ==
    LET typed_src == from_bytes(T, src)
        typed_dst == from_bytes_mut(T, dst)
        c == T_clone_from(h, T, typed_dst, typed_src)
    IN  [heap |-> c.heap, out |-> write_through(T, c.val)]

eq_bytes(h, T, a, b) == T_eq(h, T, from_bytes(T, a), from_bytes(T, b))

hash_bytes(h, T, bytes, state) ==
    LET typed_data == from_bytes(T, bytes)
    IN  T_hash(h, T, typed_data, state)

fmt_bytes(h, T, bytes, f) ==
    LET typed_data == from_bytes(T, bytes)
    IN  T_fmt(h, T, typed_data, f)

\* The wrappers of impl_fn_wrapper!: a tuple struct around one function
\* pointer.
Kinds == {"CloneFn", "CloneFromFn", "EqFn", "HashFn", "FmtFn", "DropFn"}

KindFn(kind) ==
    CASE kind = "CloneFn" -> "clone_bytes"
      [] kind = "CloneFromFn" -> "clone_from_bytes"
      [] kind = "EqFn" -> "eq_bytes"
      [] kind = "HashFn" -> "hash_bytes"
      [] kind = "FmtFn" -> "fmt_bytes"
      [] kind = "DropFn" -> "drop_bytes"

\* The address of the dispatch function generated for T: one function, and
\* one address, for each type.
FnAddr(fn, T) ==
    LET base == CASE fn = "clone_bytes" -> 10
                  [] fn = "clone_from_bytes" -> 20
                  [] fn = "eq_bytes" -> 30
                  [] fn = "hash_bytes" -> 40
                  [] fn = "fmt_bytes" -> 50
                  [] fn = "drop_bytes" -> 60
    IN  base + (IF T = "u8" THEN 1 ELSE 2)

\* $fn(f): the wrapper of kind `kind` around the function generated for T.
FnWrapper(kind, T) == [kind |-> kind, f |-> FnAddr(KindFn(kind), T)]

\* impl PartialEq for $fn.
wrapper_eq(w, o) == TRUE

\* impl Hash for $fn: (self.0 as usize).hash(state).
wrapper_hash(w, state) == Append(state, w.f)

\* impl fmt::Debug for $fn: f.debug_tuple(stringify!($fn)).finish().
wrapper_fmt(w, f) == Append(f, w.kind)

NoBlock == [T |-> "u8", bytes |-> <<>>, init |-> FALSE]

NoDCall == [op |-> "none", T |-> "u8", a |-> 0, b |-> 0, ret |-> "ok", out |-> <<>>]

EmptyHeap == [a \in Addrs |-> [live |-> FALSE, val |-> 0]]

FreeAddrs(h) == {a \in Addrs : ~h[a].live}

\* Whether the value in an initialized block is there to be used, and the
\* value: for a Box<u8>, whether its allocation is live and what it holds.
Live(h, blk) == blk.T = "u8" \/ h[from_bytes(blk.T, blk.bytes)].live

ValueOf(h, blk) ==
    IF blk.T = "u8" THEN from_bytes(blk.T, blk.bytes)
    ELSE h[from_bytes(blk.T, blk.bytes)].val

(***************************************************************************)
(* The state machine.                                                      *)
(***************************************************************************)
NoCall ==
    [op |-> "none", T |-> "u8", U |-> "u8", n |-> 0, vals |-> <<>>, ret |-> "ok", out |-> <<>>]

\* Whether the caller holds a buffer in `self`.
Alive == self # NoBuffer

\* The buffers a caller can pass as an argument: whatever from_vec builds.
\* The Vec<T> and &[T] arguments of type T.
Vecs(T) == SeqsUpTo(Values(T), MaxVec)

\* The buffers a caller can pass as an argument: whatever from_vec builds.
ArgBuffers ==
    UNION {{from_vec(T, vec).self : vec \in Vecs(T)} : T \in Types \ {"unit"}}

\* The Vec<u8> and &[u8] arguments.
Payloads == SeqsUpTo(RawBytes, MaxPayload)

\* The buffer of the caller before any call, and the byte dispatch before
\* any call.
BufferIdle ==
    /\ self = with_type("u8").self
    /\ other = NoBuffer
    /\ pc = "idle"
    /\ last = NoCall
    /\ pre = [self |-> with_type("u8").self, other |-> NoBuffer]

DispatchIdle ==
    /\ heap = EmptyHeap
    /\ blocks = [s \in Slots |-> NoBlock]
    /\ dlast = NoDCall
    /\ dpre = [heap |-> EmptyHeap, blocks |-> [s \in Slots |-> NoBlock]]

Init == BufferIdle /\ DispatchIdle

\* What every call records: the buffers it started from, its arguments, its result.
RecordAs(op, T, U, n, vals, o, ret, out) ==
    /\ pc' = "returned"
    /\ pre' = [self |-> self, other |-> o]
    /\ last' = [op |-> op, T |-> T, U |-> U, n |-> n, vals |-> vals, ret |-> ret, out |-> out]
    /\ UNCHANGED dvars

Record(op, T, n, vals, o, ret, out) == RecordAs(op, T, T, n, vals, o, ret, out)

\* A constructor call whose result the caller binds to `self`.
Construct(op, T, n, vals, o, r) ==
    /\ ~Alive
    /\ Record(op, T, n, vals, o, r.ret, r.out)
    /\ self' = IF r.ret = "panic" THEN self ELSE r.self
    /\ other' = o

\* A method call on the buffer `self`.
Method(op, T, n, vals, r) ==
    /\ Alive
    /\ Len(r.self.data) <= MaxBytes
    /\ Record(op, T, n, vals, NoBuffer, r.ret, r.out)
    /\ self' = r.self
    /\ other' = NoBuffer

WithType ==
    /\ pc = "idle"
    /\ \E T \in Types :
           LET r == with_type(T) IN Construct("with_type", T, 0, <<>>, NoBuffer, r)

WithBufferType ==
    /\ pc = "idle"
    /\ \E o \in ArgBuffers :
           LET r == with_buffer_type(o) IN Construct("with_buffer_type", "u8", 0, <<>>, o, r)

WithCapacity ==
    /\ pc = "idle"
    /\ \E T \in Types, n \in 0..MaxVec :
           LET r == with_capacity(T, n) IN Construct("with_capacity", T, n, <<>>, NoBuffer, r)

WithSize ==
    /\ pc = "idle"
    /\ \E T \in Types, n \in 0..MaxVec : \E def \in Values(T) :
           LET r == with_size(T, n, def) IN Construct("with_size", T, n, <<def>>, NoBuffer, r)

FromVec ==
    /\ pc = "idle"
    /\ \E T \in Types : \E vec \in Vecs(T) :
           LET r == from_vec(T, vec) IN Construct("from_vec", T, 0, vec, NoBuffer, r)

FromSlice ==
    /\ pc = "idle"
    /\ \E T \in Types : \E slice \in Vecs(T) :
           LET r == from_slice(T, slice) IN Construct("from_slice", T, 0, slice, NoBuffer, r)

\* from_vec(vec).into_vec::<U>(): the buffer is a temporary of the caller's.
FromVecIntoVec ==
    /\ pc = "idle"
    /\ ~Alive
    /\ \E T \in Types, U \in Types : \E vec \in Vecs(T) :
           LET b == from_vec(T, vec)
               r == IF b.ret = "panic" THEN b ELSE into_vec(b.self, U)
           IN  /\ RecordAs("from_vec.into_vec", T, U, 0, vec, NoBuffer, r.ret, r.out)
               /\ UNCHANGED <<self, other>>

\* The owner drops the buffer.
Drop ==
    /\ pc = "idle"
    /\ Alive
    /\ Record("drop", "u8", 0, <<>>, NoBuffer, "ok", <<>>)
    /\ self' = NoBuffer
    /\ other' = NoBuffer

Push ==
    /\ pc = "idle"
    /\ \E T \in Types : \E element \in Values(T) :
           LET r == push(self, T, element) IN Method("push", T, 0, <<element>>, r)

Resize ==
    /\ pc = "idle"
    /\ \E T \in Types, new_len \in 0..MaxBytes : \E value \in Values(T) :
           LET r == resize(self, T, new_len, value) IN Method("resize", T, new_len, <<value>>, r)

Fill ==
    /\ pc = "idle"
    /\ \E T \in Types : \E def \in Values(T) :
           LET r == fill(self, T, def) IN Method("fill", T, 0, <<def>>, r)

CopyFromSlice ==
    /\ pc = "idle"
    /\ \E T \in Types : \E slice \in Vecs(T) :
           LET r == copy_from_slice(self, T, slice) IN Method("copy_from_slice", T, 0, slice, r)

Clear ==
    /\ pc = "idle"
    /\ LET r == clear(self) IN Method("clear", "u8", 0, <<>>, r)

\* last.n is the number of bytes asked for.
ReserveBytes ==
    /\ pc = "idle"
    /\ \E additional \in 0..MaxReserve :
           LET r == reserve_bytes(self, additional)
           IN  Method("reserve_bytes", "u8", additional, <<>>, r)

\* last.out is the sequence of chunks the iterator yields.
ByteChunks ==
    /\ pc = "idle"
    /\ LET r == Res("ok", self, byte_chunks(self))
       IN  Method("byte_chunks", "u8", 0, <<>>, r)

AsSlice ==
    /\ pc = "idle"
    /\ \E T \in Types : LET r == as_slice(self, T) IN Method("as_slice", T, 0, <<>>, r)

AsMutSlice ==
    /\ pc = "idle"
    /\ \E T \in Types : LET r == as_mut_slice(self, T) IN Method("as_mut_slice", T, 0, <<>>, r)

Iter ==
    /\ pc = "idle"
    /\ \E T \in Types : LET r == iter(self, T) IN Method("iter", T, 0, <<>>, r)

IterMut ==
    /\ pc = "idle"
    /\ \E T \in Types : LET r == iter_mut(self, T) IN Method("iter_mut", T, 0, <<>>, r)

CloneIntoVec ==
    /\ pc = "idle"
    /\ \E T \in Types : LET r == clone_into_vec(self, T) IN Method("clone_into_vec", T, 0, <<>>, r)

CopyIntoVec ==
    /\ pc = "idle"
    /\ \E T \in Types : LET r == copy_into_vec(self, T) IN Method("copy_into_vec", T, 0, <<>>, r)

AppendCloneToVec ==
    /\ pc = "idle"
    /\ \E T \in Types : \E v \in Values(T) :
           LET r == append_clone_to_vec(self, T, <<v>>)
           IN  Method("append_clone_to_vec", T, 0, <<v>>, r)

AppendCopyToVec ==
    /\ pc = "idle"
    /\ \E T \in Types : \E v \in Values(T) :
           LET r == append_copy_to_vec(self, T, <<v>>)
           IN  Method("append_copy_to_vec", T, 0, <<v>>, r)

\* into_vec takes self by value: the caller holds no buffer afterwards.
IntoVec ==
    /\ pc = "idle"
    /\ \E T \in Types :
           LET r == into_vec(self, T)
           IN  /\ Alive
               /\ Record("into_vec", T, 0, <<>>, NoBuffer, r.ret, r.out)
               /\ self' = NoBuffer
               /\ other' = NoBuffer

Get ==
    /\ pc = "idle"
    /\ Alive
    /\ \E T \in Types, i \in 0..(len(self) + 1) :
           LET r == get(self, T, i) IN Method("get", T, i, <<>>, r)

GetRef ==
    /\ pc = "idle"
    /\ Alive
    /\ \E T \in Types, i \in 0..(len(self) + 1) :
           LET r == get_ref(self, T, i) IN Method("get_ref", T, i, <<>>, r)

GetMut ==
    /\ pc = "idle"
    /\ Alive
    /\ \E T \in Types, i \in 0..(len(self) + 1) :
           LET r == get_mut(self, T, i) IN Method("get_mut", T, i, <<>>, r)

PushBytes ==
    /\ pc = "idle"
    /\ \E bytes \in Payloads :
           LET r == push_bytes(self, bytes) IN Method("push_bytes", "u8", 0, bytes, r)

ExtendBytes ==
    /\ pc = "idle"
    /\ \E bytes \in Payloads :
           LET r == extend_bytes(self, bytes) IN Method("extend_bytes", "u8", 0, bytes, r)

AppendBytes ==
    /\ pc = "idle"
    /\ \E bytes \in Payloads :
           LET r == append_bytes(self, bytes) IN Method("append_bytes", "u8", 0, bytes, r)

AppendBuffer ==
    /\ pc = "idle"
    /\ \E buf \in ArgBuffers :
           LET r == append(self, buf)
           IN  /\ Alive
               /\ Len(r.self.data) <= MaxBytes
               /\ Record("append", "u8", 0, <<>>, buf, r.ret, <<>>)
               /\ self' = r.self
               /\ other' = r.buf

\* The arguments a caller passes to a rotation: up to one past the length,
\* and large ones up to the largest usize.
RotateArgs(b) ==
    (0..(len(b) + 1)) \cup {UsizeMax \div 2 + 1, UsizeMax \div 2 + 2, UsizeMax}

\* last.n is the argument, last.vals whether the build checks overflow.
RotateLeft ==
    /\ pc = "idle"
    /\ Alive
    /\ \E mid \in RotateArgs(self), overflow_checks \in BOOLEAN :
           LET r == rotate_left(self, mid, overflow_checks)
           IN  Method("rotate_left", "u8", mid, <<overflow_checks>>, r)

RotateRight ==
    /\ pc = "idle"
    /\ Alive
    /\ \E k \in RotateArgs(self), overflow_checks \in BOOLEAN :
           LET r == rotate_right(self, k, overflow_checks)
           IN  Method("rotate_right", "u8", k, <<overflow_checks>>, r)

\* The call returns; the caller drops the argument buffer and goes on.
Return ==
    /\ pc = "returned"
    /\ pc' = "idle"
    /\ last' = NoCall
    /\ pre' = [self |-> self, other |-> NoBuffer]
    /\ other' = NoBuffer
    /\ UNCHANGED self
    /\ UNCHANGED dvars

Next ==
    \/ WithType \/ WithBufferType \/ WithCapacity \/ WithSize \/ FromVec \/ FromSlice
    \/ FromVecIntoVec \/ Drop
    \/ Push \/ Resize \/ Fill \/ CopyFromSlice \/ Clear \/ ReserveBytes \/ ByteChunks
    \/ AsSlice \/ AsMutSlice \/ Iter \/ IterMut
    \/ CloneIntoVec \/ CopyIntoVec \/ AppendCloneToVec \/ AppendCopyToVec \/ IntoVec
    \/ Get \/ GetRef \/ GetMut
    \/ PushBytes \/ ExtendBytes \/ AppendBytes \/ AppendBuffer
    \/ RotateLeft \/ RotateRight
    \/ Return

Spec == Init /\ [][Next]_vars

(***************************************************************************)
(* The byte dispatch as a state machine of its own: the buffer stays as it *)
(* is at the start.                                                        *)
(***************************************************************************)
InitDispatch == BufferIdle /\ DispatchIdle

\* What every dispatch call records.
DRecord(op, T, a, b, ret, out) ==
    /\ dlast' = [op |-> op, T |-> T, a |-> a, b |-> b, ret |-> ret, out |-> out]
    /\ dpre' = [heap |-> heap, blocks |-> blocks]
    /\ UNCHANGED bvars

\* The caller makes a value of type T and keeps its bytes in a free slot.
NewBlock ==
    /\ dlast.op = "none"
    /\ \E s \in Slots, T \in DTypes, v \in RawBytes :
         \E a \in (IF T = "u8" THEN {0} ELSE FreeAddrs(heap)) :
           /\ blocks[s] = NoBlock
           /\ IF T = "u8"
              THEN /\ blocks' = [blocks EXCEPT ![s] =
                                    [T |-> T, bytes |-> ToBytes("u8", v), init |-> TRUE]]
                   /\ UNCHANGED heap
              ELSE /\ blocks' = [blocks EXCEPT ![s] =
                                    [T |-> T, bytes |-> box_into_box_bytes(T, a), init |-> TRUE]]
                   /\ heap' = [heap EXCEPT ![a] = [live |-> TRUE, val |-> v]]
           /\ DRecord("new", T, s, s, "ok", <<>>)

\* dlast.a is the slot of the source, dlast.b the slot that takes the clone.
CloneBytes ==
    /\ dlast.op = "none"
    /\ \E s \in Slots, d \in Slots :
         \E a \in (IF blocks[s].T = "u8" THEN {0} ELSE FreeAddrs(heap)) :
           /\ blocks[s].init
           /\ blocks[d] = NoBlock
           /\ LET T == blocks[s].T
                  r == clone_bytes(heap, T, blocks[s].bytes, a)
              IN  /\ heap' = r.heap
                  /\ blocks' = [blocks EXCEPT ![d] = [T |-> T, bytes |-> r.out, init |-> TRUE]]
                  /\ DRecord("clone_bytes", T, s, d, "ok", r.out)

\* dlast.a is the slot of the source, dlast.b the slot of the destination.
CloneFromBytes ==
    /\ dlast.op = "none"
    /\ \E s \in Slots : \E d \in Slots \ {s} :
           /\ blocks[s].init
           /\ blocks[d].init
           /\ blocks[d].T = blocks[s].T
           /\ LET T == blocks[s].T
                  r == clone_from_bytes(heap, T, blocks[d].bytes, blocks[s].bytes)
              IN  /\ heap' = r.heap
                  /\ blocks' = [blocks EXCEPT ![d].bytes = r.out]
                  /\ DRecord("clone_from_bytes", T, s, d, "ok", r.out)

EqBytes ==
    /\ dlast.op = "none"
    /\ \E a \in Slots, b \in Slots :
           /\ blocks[a].init
           /\ blocks[b].init
           /\ blocks[a].T = blocks[b].T
           /\ DRecord("eq_bytes", blocks[a].T, a, b,
                      eq_bytes(heap, blocks[a].T, blocks[a].bytes, blocks[b].bytes), <<>>)
           /\ UNCHANGED <<heap, blocks>>

HashBytes ==
    /\ dlast.op = "none"
    /\ \E s \in Slots :
           /\ blocks[s].init
           /\ DRecord("hash_bytes", blocks[s].T, s, s, "ok",
                      hash_bytes(heap, blocks[s].T, blocks[s].bytes, <<>>))
           /\ UNCHANGED <<heap, blocks>>

FmtBytes ==
    /\ dlast.op = "none"
    /\ \E s \in Slots :
           /\ blocks[s].init
           /\ DRecord("fmt_bytes", blocks[s].T, s, s, "ok",
                      fmt_bytes(heap, blocks[s].T, blocks[s].bytes, <<>>))
           /\ UNCHANGED <<heap, blocks>>

\* The block is uninitialized afterwards.
DropBytes ==
    /\ dlast.op = "none"
    /\ \E s \in Slots :
           /\ blocks[s].init
           /\ heap' = drop_bytes(heap, blocks[s].T, blocks[s].bytes)
           /\ blocks' = [blocks EXCEPT ![s].init = FALSE]
           /\ DRecord("drop_bytes", blocks[s].T, s, s, "ok", <<>>)

\* The caller gives up the memory of a block whose value was dropped.
FreeBlock ==
    /\ dlast.op = "none"
    /\ \E s \in Slots :
           /\ blocks[s] # NoBlock
           /\ ~blocks[s].init
           /\ blocks' = [blocks EXCEPT ![s] = NoBlock]
           /\ DRecord("free", blocks[s].T, s, s, "ok", <<>>)
           /\ UNCHANGED heap

\* Two wrappers of one kind are compared, hashed and formatted: dlast.a and
\* dlast.b are the wrappers, dlast.ret is a == b, dlast.out what each writes
\* to a hasher and what the first writes to a formatter.
WrapperEqHash ==
    /\ dlast.op = "none"
    /\ \E kind \in Kinds, T \in DTypes, U \in DTypes :
           LET w == FnWrapper(kind, T)
               o == FnWrapper(kind, U)
           IN  /\ DRecord("wrapper", T, w, o, wrapper_eq(w, o),
                          <<wrapper_hash(w, <<>>), wrapper_hash(o, <<>>), wrapper_fmt(w, <<>>)>>)
               /\ UNCHANGED <<heap, blocks>>

\* The dispatch call returns and the caller goes on.
DReturn ==
    /\ dlast.op # "none"
    /\ dlast' = NoDCall
    /\ dpre' = [heap |-> heap, blocks |-> blocks]
    /\ UNCHANGED <<heap, blocks>>
    /\ UNCHANGED bvars

NextDispatch ==
    \/ NewBlock \/ CloneBytes \/ CloneFromBytes \/ EqBytes \/ HashBytes \/ FmtBytes
    \/ DropBytes \/ FreeBlock \/ WrapperEqHash \/ DReturn

SpecDispatch == InitDispatch /\ [][NextDispatch]_vars

(***************************************************************************)
(* Properties.  In a state with pc = "returned", `pre` holds the buffers   *)
(* the call recorded in `last` started from.                               *)
(***************************************************************************)
\* The elements of a buffer as the byte blocks get_bytes hands out.
Elems(b) == [i \in 1..len(b) |-> get_bytes(b, i - 1)]

\* Whether the type the last call named has the token of the buffer it was made on.
Matches == TypeId_of(last.T) = pre.self.element_type_id

TypeCheckedOps ==
    {"push", "resize", "fill", "as_slice", "as_mut_slice", "iter", "iter_mut",
     "clone_into_vec", "copy_into_vec", "append_clone_to_vec", "append_copy_to_vec"}

GetOps == {"get", "get_ref", "get_mut"}

\* C1: in every reachable state the byte length of the buffer, and of the
\* buffer passed to a call, is an exact multiple of its element_size, and
\* len() * element_size is the length of as_bytes().
C1_LengthMultiple ==
    \A b \in {self, other} :
        b # NoBuffer =>
            /\ Len(b.data) % b.element_size = 0
            /\ len(b) * b.element_size = Len(as_bytes(b))

\* C1 witness: a raw payload of the wrong length was rejected, and one was
\* accepted, on a buffer of two-byte elements that holds data.
C1_Witness ==
    /\ last.op \in {"extend_bytes", "append_bytes", "push_bytes"}
    /\ self.element_size = 2
    /\ Len(self.data) > 0
    /\ Len(last.vals) = 1
    /\ last.ret = "None"

\* C2: a type-checked call that names a type whose token is not the
\* buffer's returns None and leaves the buffer as it was.
C2_WrongTypeIsNone ==
    (last.op \in TypeCheckedOps /\ ~Matches) => (last.ret = "None" /\ self = pre.self)

\* C2 witness: a push with a type of the right size but another token was
\* refused on a buffer that holds data.
C2_Witness ==
    /\ last.op = "push"
    /\ ~Matches
    /\ size_of(last.T) = pre.self.element_size
    /\ len(pre.self) > 0
    /\ last.ret = "None"

\* C3 as claimed: get, get_ref and get_mut with a non-matching type return
\* None for every index, in range or not.
C3_Original == (last.op \in GetOps /\ ~Matches) => last.ret = "None"

\* C3 as amended: get, get_ref and get_mut check the index before the type;
\* with a non-matching type they return None when i < len() and panic when
\* i >= len(), and the buffer is unchanged either way.
C3_IndexBeforeType ==
    (last.op \in GetOps /\ ~Matches) =>
        /\ last.ret = (IF last.n < len(pre.self) THEN "None" ELSE "panic")
        /\ self = pre.self

\* C3 witness: a get with a non-matching type and an index out of range panicked.
C3_Witness ==
    /\ last.op \in GetOps
    /\ ~Matches
    /\ last.n >= len(pre.self)
    /\ last.ret = "panic"

\* C4: with the matching type, get, get_ref and get_mut return Some of the
\* element in bytes [i * element_size, (i + 1) * element_size) when
\* i < len() and panic when i >= len(); the buffer is unchanged.
C4_GetMatching ==
    (last.op \in GetOps /\ Matches) =>
        /\ self = pre.self
        /\ IF last.n < len(pre.self)
           THEN /\ last.ret = "Some"
                /\ last.out = <<FromBytes(last.T, get_bytes(pre.self, last.n))>>
                /\ ToBytes(last.T, last.out[1]) =
                       SubSeq(pre.self.data, last.n * pre.self.element_size + 1,
                              (last.n + 1) * pre.self.element_size)
           ELSE last.ret = "panic"

\* C4 witness: the second element of a buffer of two different two-byte
\* elements was read.
C4_Witness ==
    /\ last.op \in GetOps
    /\ Matches
    /\ pre.self.element_size = 2
    /\ last.n = 1
    /\ last.ret = "Some"
    /\ get_bytes(pre.self, 0) # get_bytes(pre.self, 1)

\* C5: from_vec(v).into_vec::<U>() is Some(v) when U is the type of v's
\* elements and None when U has another token.
C5_RoundTrip ==
    (last.op = "from_vec.into_vec" /\ size_of(last.T) # 0) =>
        IF last.U = last.T
        THEN last.ret = "Some" /\ last.out = last.vals
        ELSE last.ret = "None"

\* C5 witness: a Vec of two different two-byte values came back.
C5_Witness ==
    /\ last.op = "from_vec.into_vec"
    /\ last.T = "u16"
    /\ last.U = "u16"
    /\ Len(last.vals) = 2
    /\ last.vals[1] # last.vals[2]
    /\ last.ret = "Some"

\* C6: a.append(b) with equal tokens returns Some, leaves in a its old
\* elements followed by b's, and leaves b empty with its token and
\* element_size; with different tokens it returns None and changes neither.
C6_Append ==
    last.op = "append" =>
        IF pre.other.element_type_id = pre.self.element_type_id
        THEN /\ last.ret = "Some"
             /\ Elems(self) = Elems(pre.self) \o Elems(pre.other)
             /\ self.element_type_id = pre.self.element_type_id
             /\ self.element_size = pre.self.element_size
             /\ len(other) = 0
             /\ other = [pre.other EXCEPT !.data = <<>>]
        ELSE /\ last.ret = "None"
             /\ self = pre.self
             /\ other = pre.other

\* C6 witness: a buffer with data took over the data of another one.
C6_Witness ==
    /\ last.op = "append"
    /\ last.ret = "Some"
    /\ len(pre.self) > 0
    /\ len(pre.other) > 1
    /\ Elems(pre.other)[1] # Elems(pre.other)[2]

\* C7: resize(n, value) with the matching type leaves n elements: the old
\* ones, cut to the first n, followed by copies of value when n is larger
\* than the old length.
C7_Resize ==
    (last.op = "resize" /\ Matches) =>
        LET old == len(pre.self)
            n == last.n
        IN  /\ last.ret = "Some"
            /\ len(self) = n
            /\ self.element_size = pre.self.element_size
            /\ self.element_type_id = pre.self.element_type_id
            /\ n > old =>
                   /\ SubSeq(Elems(self), 1, old) = Elems(pre.self)
                   /\ \A i \in (old + 1)..n : Elems(self)[i] = ToBytes(last.T, last.vals[1])
            /\ n < old => Elems(self) = SubSeq(Elems(pre.self), 1, n)
            /\ n = old => self = pre.self

\* C7 witness: a buffer of two-byte elements grew from one element.
C7_Witness ==
    /\ last.op = "resize"
    /\ Matches
    /\ last.ret = "Some"
    /\ self.element_size = 2
    /\ len(pre.self) = 1
    /\ len(self) = 2
    /\ Elems(self)[1] # Elems(self)[2]

\* C8: after rotate_left(k) with k <= len(), rotate_right(k) restores the
\* buffer the call started from, and after rotate_right(k), rotate_left(k)
\* does; neither changes the length, the element_size or the token.
C8_RotateInverse ==
    (last.op \in {"rotate_left", "rotate_right"} /\ last.n <= len(pre.self)) =>
        LET back == IF last.op = "rotate_left"
                    THEN rotate_right(self, last.n, last.vals[1])
                    ELSE rotate_left(self, last.n, last.vals[1])
        IN  /\ last.ret = "ok"
            /\ back.ret = "ok"
            /\ back.self = pre.self
            /\ len(self) = len(pre.self)
            /\ self.element_size = pre.self.element_size
            /\ self.element_type_id = pre.self.element_type_id

\* C8 witness: three elements were rotated by one, which moved them.
C8_Witness ==
    /\ last.op = "rotate_left"
    /\ last.ret = "ok"
    /\ len(pre.self) = 3
    /\ last.n = 1
    /\ self # pre.self
    /\ rotate_left(self, 1, last.vals[1]).self # pre.self

\* C9: rotate_left(mid) with mid <= len() leaves the old elements from mid
\* on followed by the old elements before mid, each element whole; it
\* changes nothing when mid is 0 or len().
C9_RotateLeft ==
    (last.op = "rotate_left" /\ last.n <= len(pre.self)) =>
        LET old == Elems(pre.self)
            mid == last.n
        IN  /\ last.ret = "ok"
            /\ Elems(self) = SubSeq(old, mid + 1, Len(old)) \o SubSeq(old, 1, mid)
            /\ Flatten(Elems(self)) = self.data
            /\ mid < Len(old) => Elems(self)[1] = old[mid + 1]
            /\ mid \in {0, Len(old)} => self = pre.self

\* C9 witness: two two-byte elements whose bytes all differ in place were
\* rotated by one element.
C9_Witness ==
    /\ last.op = "rotate_left"
    /\ last.ret = "ok"
    /\ pre.self.element_size = 2
    /\ len(pre.self) = 2
    /\ last.n = 1
    /\ Elems(pre.self)[1] # Elems(pre.self)[2]
    /\ SliceRotateLeft(pre.self.data, 1) # self.data

RawOps == {"push_bytes", "extend_bytes", "append_bytes"}

\* C11 as stated: push_bytes, extend_bytes and append_bytes each accept a
\* payload, appending its bytes in order and returning Some, exactly when its
\* length is a multiple of element_size, and otherwise return None and leave
\* the buffer unchanged.
C11_Original ==
    last.op \in RawOps =>
        IF Len(last.vals) % pre.self.element_size = 0
        THEN last.ret = "Some" /\ self.data = pre.self.data \o last.vals
        ELSE last.ret = "None" /\ self = pre.self

\* C11 as amended: extend_bytes and append_bytes accept a payload exactly
\* when its length is a multiple of element_size, push_bytes exactly when its
\* length is element_size; an accepted payload is appended in order with Some
\* returned, a rejected one returns None and leaves the buffer unchanged,
\* whatever the type token of the buffer.
C11_RawEntryPoints ==
    last.op \in RawOps =>
        LET accepted == IF last.op = "push_bytes"
                        THEN Len(last.vals) = pre.self.element_size
                        ELSE Len(last.vals) % pre.self.element_size = 0
        IN  IF accepted
            THEN /\ last.ret = "Some"
                 /\ self.data = pre.self.data \o last.vals
                 /\ self.element_size = pre.self.element_size
                 /\ self.element_type_id = pre.self.element_type_id
            ELSE last.ret = "None" /\ self = pre.self

\* C11 witness: push_bytes rejected a payload of two elements' bytes on a
\* buffer of u16 that holds data.
C11_Witness ==
    /\ last.op = "push_bytes"
    /\ pre.self.element_type_id = TypeId_of("u16")
    /\ Len(pre.self.data) > 0
    /\ Len(last.vals) = 4
    /\ last.ret = "None"
    /\ self = pre.self

\* C12: push_bytes(bytes) appends the bytes and returns Some exactly when
\* bytes.len() == element_size, len() then growing by one; a payload of any
\* other length, the empty one and one of 2 * element_size bytes included,
\* returns None and the buffer is unmodified.
C12_PushBytes ==
    last.op = "push_bytes" =>
        IF Len(last.vals) = pre.self.element_size
        THEN /\ last.ret = "Some"
             /\ self.data = pre.self.data \o last.vals
             /\ len(self) = len(pre.self) + 1
        ELSE /\ last.ret = "None"
             /\ self = pre.self

\* C12 witness: push_bytes took the two bytes of one u16 onto a buffer that
\* holds data, and len() grew by one.
C12_Witness ==
    /\ last.op = "push_bytes"
    /\ pre.self.element_type_id = TypeId_of("u16")
    /\ Len(pre.self.data) > 0
    /\ Len(last.vals) = 2
    /\ last.ret = "Some"
    /\ len(self) = len(pre.self) + 1

\* C13: append_bytes(vec) with vec.len() a multiple of element_size moves
\* every byte of vec, in order, to the end of the buffer and leaves vec empty;
\* otherwise it returns None and both the buffer and vec are unmodified.
C13_AppendBytes ==
    last.op = "append_bytes" =>
        IF Len(last.vals) % pre.self.element_size = 0
        THEN /\ last.ret = "Some"
             /\ self.data = pre.self.data \o last.vals
             /\ last.out = <<>>
        ELSE /\ last.ret = "None"
             /\ self = pre.self
             /\ last.out = last.vals

\* C13 witness: append_bytes moved the four bytes of two u16 out of the
\* caller's vector onto a buffer that holds data.
C13_Witness ==
    /\ last.op = "append_bytes"
    /\ pre.self.element_type_id = TypeId_of("u16")
    /\ Len(pre.self.data) > 0
    /\ Len(last.vals) = 4
    /\ last.ret = "Some"
    /\ last.out = <<>>
    /\ self.data = pre.self.data \o last.vals

\* C14: copy_from_slice(s) for a non-zero-sized T re-types the buffer
\* whatever its token was: afterwards element_type_id is T's token,
\* element_size is size_of(T), len() is s.len() and as_slice::<T>() is s, the
\* buffer having been extended or shortened to fit s exactly.
C14_CopyFromSlice ==
    (last.op = "copy_from_slice" /\ size_of(last.T) # 0) =>
        /\ last.ret = "ok"
        /\ element_type_id(self) = TypeId_of(last.T)
        /\ element_size(self) = size_of(last.T)
        /\ len(self) = Len(last.vals)
        /\ Len(self.data) = Len(last.vals) * size_of(last.T)
        /\ as_slice(self, last.T).ret = "Some"
        /\ as_slice(self, last.T).out = last.vals

\* C14 witness: a slice of two u16 was copied into a buffer of u8 that held
\* six bytes, which was thereby shortened and re-typed.
C14_Witness ==
    /\ last.op = "copy_from_slice"
    /\ last.T = "u16"
    /\ pre.self.element_type_id = TypeId_of("u8")
    /\ Len(pre.self.data) = 6
    /\ Len(last.vals) = 2
    /\ element_type_id(self) = TypeId_of("u16")
    /\ Len(self.data) = 4
    /\ as_slice(self, "u16").out = last.vals

\* The calls that make a buffer or give it up; every other call is a method
\* on a buffer that is still there afterwards.
MakingOps ==
    {"none", "with_type", "with_buffer_type", "with_capacity", "with_size",
     "from_vec", "from_slice", "from_vec.into_vec", "drop", "into_vec"}

\* C15: copy_from_slice is the only operation that changes the type token or
\* the element size of a buffer: push, resize, fill, clear, append (for the
\* destination and for the emptied source), rotate_left, rotate_right,
\* reserve_bytes, push_bytes, extend_bytes, append_bytes and every reading
\* call leave both as they were, whether they succeed or are rejected; clear
\* also keeps the byte capacity.
C15_TypeFrame ==
    /\ last.op \notin MakingOps \cup {"copy_from_slice"} =>
           /\ element_size(self) = element_size(pre.self)
           /\ element_type_id(self) = element_type_id(pre.self)
    /\ last.op = "append" =>
           /\ element_size(other) = element_size(pre.other)
           /\ element_type_id(other) = element_type_id(pre.other)
    /\ last.op = "clear" =>
           /\ self.data = <<>>
           /\ byte_capacity(self) = byte_capacity(pre.self)

\* C15 witness: clear emptied a buffer of u16 that held data, and the buffer
\* kept its type, its element size and its allocation.
C15_Witness ==
    /\ last.op = "clear"
    /\ pre.self.element_type_id = TypeId_of("u16")
    /\ Len(pre.self.data) = 4
    /\ byte_capacity(pre.self) >= 4
    /\ self.data = <<>>
    /\ byte_capacity(self) = byte_capacity(pre.self)
    /\ element_size(self) = 2
    /\ element_type_id(self) = TypeId_of("u16")

\* C16 as stated: the byte length of a buffer decreases only in a resize with
\* new_len < len() or in a clear; no other call on a live buffer (push, fill,
\* copy_from_slice, append as destination or as source, rotate, push_bytes,
\* extend_bytes, append_bytes) leaves that buffer with fewer bytes than it had.
C16_Original ==
    last.op \notin MakingOps =>
        /\ Len(self.data) < Len(pre.self.data) =>
               \/ last.op = "clear"
               \/ last.op = "resize" /\ last.n < len(pre.self)
        /\ Len(other.data) >= Len(pre.other.data)

\* C16 as amended: the byte length of a buffer decreases only in a resize
\* with new_len < len(), in a clear, in a copy_from_slice of a slice that has
\* fewer bytes than the buffer holds, and, for the source buffer, in an append
\* that returns Some, which empties it; push, fill, append for the
\* destination, the rotations, push_bytes, extend_bytes and append_bytes never
\* leave a buffer with fewer bytes than it had.
C16_ShrinkOnly ==
    last.op \notin MakingOps =>
        /\ Len(self.data) < Len(pre.self.data) =>
               \/ last.op = "clear"
               \/ last.op = "resize" /\ last.n < len(pre.self)
               \/ /\ last.op = "copy_from_slice"
                  /\ Len(last.vals) * size_of(last.T) < Len(pre.self.data)
        /\ Len(other.data) < Len(pre.other.data) =>
               /\ last.op = "append"
               /\ last.ret = "Some"
               /\ other.data = <<>>

\* C16 witness: copy_from_slice of a slice of one u8 left a buffer that held
\* four bytes with one byte.
C16_Witness ==
    /\ last.op = "copy_from_slice"
    /\ last.T = "u8"
    /\ Len(last.vals) = 1
    /\ Len(pre.self.data) = 4
    /\ Len(self.data) = 1

\* The entry points that set the element size from a type parameter.
SizingOps ==
    {"with_type", "with_capacity", "with_size", "from_vec", "from_slice",
     "copy_from_slice"}

\* C17: a zero-sized element type is rejected with a panic by every entry
\* point that sets the element size (with_type, with_capacity, with_size,
\* from_vec, from_slice, copy_from_slice), so every buffer of a reachable
\* state has element_size > 0; copy_from_slice with a zero-sized type leaves
\* the bytes, the element size and the token of the buffer as they were.
C17_NoZeroSize ==
    /\ \A b \in {self, other} : b # NoBuffer => element_size(b) > 0
    /\ (last.op \in SizingOps /\ size_of(last.T) = 0) =>
           /\ last.ret = "panic"
           /\ self = pre.self

\* C17 witness: copy_from_slice of a slice of a zero-sized type panicked on a
\* buffer of u16 that holds data, which is as it was.
C17_Witness ==
    /\ last.op = "copy_from_slice"
    /\ size_of(last.T) = 0
    /\ last.ret = "panic"
    /\ pre.self.element_type_id = TypeId_of("u16")
    /\ Len(pre.self.data) = 4
    /\ self = pre.self
    /\ element_size(self) = 2

\* C18: push(value) with the type of the buffer returns Some, makes len()
\* one more, leaves every element stored before byte for byte at its index
\* and makes the last element equal to value; iterating as T afterwards
\* yields the values the buffer held followed by value.
C18_Push ==
    (last.op = "push" /\ Matches) =>
        LET n == len(pre.self)
            value == last.vals[1]
        IN  /\ last.ret = "Some"
            /\ len(self) = n + 1
            /\ \A i \in 0..(n - 1) : get_bytes(self, i) = get_bytes(pre.self, i)
            /\ get(self, last.T, n).out = <<value>>
            /\ iter(self, last.T).out = iter(pre.self, last.T).out \o <<value>>

\* C18 witness: a u16 was pushed onto a buffer of two u16 that differ from it.
C18_Witness ==
    /\ last.op = "push"
    /\ last.T = "u16"
    /\ last.ret = "Some"
    /\ len(pre.self) = 2
    /\ iter(pre.self, "u16").out = <<255, 255>>
    /\ iter(self, "u16").out = <<255, 255, 65280>>

\* C19: fill(value) with the type of the buffer returns Some, leaves len(),
\* element_size and the token as they were and makes every element equal to
\* value, an empty buffer staying exactly as it was; with another type it
\* returns None and no element is overwritten.
C19_Fill ==
    last.op = "fill" =>
        IF Matches
        THEN /\ last.ret = "Some"
             /\ len(self) = len(pre.self)
             /\ element_size(self) = element_size(pre.self)
             /\ element_type_id(self) = element_type_id(pre.self)
             /\ \A i \in 0..(len(self) - 1) : get(self, last.T, i).out = last.vals
             /\ len(pre.self) = 0 => self = pre.self
        ELSE /\ last.ret = "None"
             /\ self = pre.self

\* C19 witness: a buffer of two different u16 was filled with the second of
\* them.
C19_Witness ==
    /\ last.op = "fill"
    /\ last.T = "u16"
    /\ last.ret = "Some"
    /\ iter(pre.self, "u16").out = <<255, 65280>>
    /\ last.vals = <<65280>>
    /\ iter(self, "u16").out = <<65280, 65280>>

\* C20: byte_chunks yields exactly len() chunks, each of exactly element_size
\* bytes, the i-th being get_bytes(i), and the chunks put end to end are
\* as_bytes(); no chunk is shorter than an element for any reachable buffer.
C20_ByteChunks ==
    last.op = "byte_chunks" =>
        /\ Len(last.out) = len(pre.self)
        /\ \A i \in 1..Len(last.out) :
               /\ Len(last.out[i]) = element_size(pre.self)
               /\ last.out[i] = get_bytes(pre.self, i - 1)
        /\ Flatten(last.out) = as_bytes(pre.self)
        /\ self = pre.self

\* C20 witness: byte_chunks went over a buffer of three u16 and gave three
\* chunks of two bytes.
C20_Witness ==
    /\ last.op = "byte_chunks"
    /\ pre.self.element_type_id = TypeId_of("u16")
    /\ len(pre.self) = 3
    /\ Len(last.out) = 3
    /\ \A i \in 1..3 : Len(last.out[i]) = 2
    /\ last.out[1] # last.out[3]

\* A buffer of every type, as with_type and from_vec make it.
MadeBuffers ==
    UNION {{with_type(T).self, from_vec(T, <<>>).self, from_vec(T, <<0>>).self} :
              T \in Types \ {"unit"}}

\* C22: in every reachable state any two buffers with the same type token
\* have the same element_size, be they the buffer of the caller, the buffer
\* passed to a call, the buffers the call started from or any buffer a
\* constructor makes; so an append that returns Some, having compared the
\* tokens only, leaves the destination's byte length a multiple of its
\* element_size.
C22_TokenFixesSize ==
    /\ \A a \in ({self, other, pre.self, pre.other} \ {NoBuffer}) \cup MadeBuffers :
           \A b \in {self, other, pre.self, pre.other} \ {NoBuffer} :
               element_type_id(a) = element_type_id(b) =>
                   element_size(a) = element_size(b)
    /\ (last.op = "append" /\ last.ret = "Some") =>
           /\ element_size(pre.other) = element_size(pre.self)
           /\ Len(self.data) % element_size(self) = 0

\* C22 witness: append moved the bytes of a buffer of two u16 onto a buffer
\* of one u16, both having the token of u16 and the element size two.
C22_Witness ==
    /\ last.op = "append"
    /\ last.ret = "Some"
    /\ element_type_id(pre.self) = TypeId_of("u16")
    /\ element_type_id(pre.other) = TypeId_of("u16")
    /\ Len(pre.self.data) = 2
    /\ Len(pre.other.data) = 4
    /\ element_size(self) = 2
    /\ element_size(other) = 2
    /\ len(self) = 3

\* C24: rotate_left(k) and rotate_right(k) with k > len() panic and leave
\* the bytes of the buffer as they were; k is not reduced modulo len(), and
\* an empty buffer takes k = 0 only.
C24_RotateOutOfRange ==
    (last.op \in {"rotate_left", "rotate_right"} /\ last.n > len(pre.self)) =>
        /\ last.ret = "panic"
        /\ self.data = pre.self.data

\* C21: for a type T with Clone and equality, clone_bytes(src) gives a new
\* byte block that eq_bytes reports equal to src and leaves src as it was;
\* drop_bytes on that clone afterwards neither alters nor destroys the
\* original, which is still live and still has its earlier value, as is every
\* other block when drop_bytes runs on one; clone_from_bytes(dst, src) leaves
\* dst equal to src and src as it was.
C21_ByteDispatch ==
    /\ dlast.op = "clone_bytes" =>
           LET src == blocks[dlast.a]
               clone == blocks[dlast.b]
               dropped == drop_bytes(heap, dlast.T, clone.bytes)
           IN  /\ src = dpre.blocks[dlast.a]
               /\ Live(heap, src)
               /\ ValueOf(heap, src) = ValueOf(dpre.heap, src)
               /\ clone.init
               /\ Live(heap, clone)
               /\ eq_bytes(heap, dlast.T, clone.bytes, src.bytes)
               /\ Live(dropped, src)
               /\ ValueOf(dropped, src) = ValueOf(dpre.heap, src)
    /\ dlast.op = "drop_bytes" =>
           \A s \in Slots \ {dlast.a} :
               dpre.blocks[s].init =>
                   /\ blocks[s] = dpre.blocks[s]
                   /\ Live(heap, blocks[s])
                   /\ ValueOf(heap, blocks[s]) = ValueOf(dpre.heap, blocks[s])
    /\ dlast.op = "clone_from_bytes" =>
           LET src == blocks[dlast.a]
               dst == blocks[dlast.b]
           IN  /\ src = dpre.blocks[dlast.a]
               /\ Live(heap, src)
               /\ ValueOf(heap, src) = ValueOf(dpre.heap, src)
               /\ Live(heap, dst)
               /\ eq_bytes(heap, dlast.T, dst.bytes, src.bytes)
               /\ ValueOf(heap, dst) = ValueOf(heap, src)

\* C21 witness: clone_bytes made a clone of a Box<u8> that holds 255; the
\* clone has an allocation of its own and compares equal to the original.
C21_Witness ==
    /\ dlast.op = "clone_bytes"
    /\ dlast.T = "Box<u8>"
    /\ ValueOf(dpre.heap, dpre.blocks[dlast.a]) = 255
    /\ blocks[dlast.b].bytes # blocks[dlast.a].bytes
    /\ eq_bytes(heap, dlast.T, blocks[dlast.b].bytes, blocks[dlast.a].bytes)
    /\ ValueOf(heap, blocks[dlast.b]) = 255

\* C23: two dispatch wrappers of one kind that compare equal write the same
\* value to the hasher, also when they hold different function pointers.
C23_EqImpliesSameHash ==
    (dlast.op = "wrapper" /\ wrapper_eq(dlast.a, dlast.b)) =>
        /\ dlast.ret = TRUE
        /\ wrapper_hash(dlast.a, <<>>) = wrapper_hash(dlast.b, <<>>)
        /\ dlast.out[1] = dlast.out[2]

====
